---- MODULE Spec2Model ----
(***************************************************************************)
(* ext/hallon/common.h of the Hallon Ruby extension, read the way the C    *)
(* preprocessor reads it: one line at a time, inside a translation unit    *)
(* that may include it several times and that may or may not have          *)
(* HAVE_LIBSPOTIFY_API_H defined.                                          *)
(*                                                                         *)
(* The header is data (CommonH, one record per source line); the actions   *)
(* are the preprocessor's handling of each kind of line.  What a line does *)
(* is appended to the log `out`, so that the order of inclusions and       *)
(* declarations can be read back.                                          *)
(***************************************************************************)
EXTENDS Integers, Sequences, FiniteSets, TLC

\* How many times the translation unit may write #include "common.h".
MaxIncludes == 3

\* How many Session calls a Ruby script makes after the extension is loaded.
MaxCalls == 2

GUARD_MACRO == "__HALLON__"
HAVE_API    == "HAVE_LIBSPOTIFY_API_H"

\* A line of the header: a directive or declaration with its operand.
D(op, arg) == [op |-> op, arg |-> arg, ret |-> "", params |-> <<>>]
Text == D("text", "")

(***************************************************************************)
(* The header, line by line.                                               *)
(***************************************************************************)
\* line 1 testing a macro other than the one line 2 defines
GuardOpenWrongName == <<D("ifndef", "__HALLON_H__")>>

\* line 1: #ifndef __HALLON__
GuardOpen == <<D("ifndef", GUARD_MACRO)>>

\* line 2: a second macro defined beside the guard (same line count)
GuardDefineWrongName == <<D("define", "__HALLON_H__")>>

\* line 2: #define __HALLON__
GuardDefine == <<D("define", GUARD_MACRO)>>

\* lines 4-5 with <pthread.h> dropped
SystemIncludesNoPthread == <<D("include", "ruby.h"), Text>>

\* lines 4-5: #include <ruby.h>, #include <pthread.h>
SystemIncludes == <<D("include", "ruby.h"), D("include", "pthread.h")>>

\* lines 7-11 with the test inverted (#ifndef for #ifdef)
ApiSelectInverted ==
    << D("ifndef", HAVE_API),
       D("include", "libspotify/api.h"),
       D("else", ""),
       D("include", "spotify/api.h"),
       D("endif", "") >>

\* lines 7-11: #ifdef HAVE_LIBSPOTIFY_API_H / #else / #endif
ApiSelect ==
    << D("ifdef", HAVE_API),
       D("include", "libspotify/api.h"),
       D("else", ""),
       D("include", "spotify/api.h"),
       D("endif", "") >>

\* lines 13-15: the comment "Initializers for the other classes."
InitializersComment == <<Text, Text, Text>>

\* line 16: void Init_Session(VALUE);
DeclInitSession ==
    << [op |-> "decl", arg |-> "Init_Session", ret |-> "void",
        params |-> <<"VALUE">>] >>

\* line 17: #endif
GuardClose == <<D("endif", "")>>

\* the header with the declaration moved above the #include lines
CommonHDeclFirst ==
    GuardOpen \o GuardDefine \o DeclInitSession
      \o SystemIncludes \o <<Text>>
      \o ApiSelect \o <<Text>>
      \o InitializersComment \o <<Text>>
      \o GuardClose

\* the header, lines 1-17
CommonH ==
    GuardOpen \o GuardDefine \o <<Text>>
      \o SystemIncludes \o <<Text>>
      \o ApiSelect \o <<Text>>
      \o InitializersComment
      \o DeclInitSession
      \o GuardClose

\* The types a system header declares that this header goes on to use:
\* VALUE comes from <ruby.h>.  What else the system headers hold is not
\* part of common.h and is left out.
HeaderTypes(h) == IF h = "ruby.h" THEN {"VALUE"} ELSE {}

VARIABLES
    macros,   \* the macros defined at this point of the translation unit
    pc,       \* 0: in the translation unit; k > 0: about to read line k of common.h
    conds,    \* the open conditional groups, innermost last
    out,      \* what the header's lines have done so far, in order
    types,    \* the type names declared so far
    errors,   \* the type names a declaration used before they were declared
    ninc,     \* how many times common.h has been included so far
    phase,    \* "preprocess", "compiled", "loading", "loaded"
    classes,  \* the Ruby classes the loaded extension has defined
    spcalls   \* how many calls have been forwarded to libspotify

vars == <<macros, pc, conds, out, types, errors, ninc, phase, classes, spcalls>>

ppvars   == <<macros, pc, conds, out, types, errors, ninc>>
loadvars == <<phase, classes, spcalls>>

\* Lines are read, not skipped, when every open group is in its taken branch.
Active == \A i \in 1..Len(conds) : conds[i].taken

InHeader == phase = "preprocess" /\ pc \in 1..Len(CommonH)
Line     == CommonH[pc]

\* After the last line the preprocessor returns to the including file.
NextPc == IF pc = Len(CommonH) THEN 0 ELSE pc + 1

Emit(kind) ==
    [inc |-> ninc, line |-> pc, kind |-> kind, name |-> Line.arg,
     ret |-> Line.ret, params |-> Line.params]

\* The translation unit before its first #include "common.h": the guard
\* macro belongs to this header and is not yet defined; whether
\* HAVE_LIBSPOTIFY_API_H is defined is up to the build.
Init ==
    /\ macros \in SUBSET {HAVE_API}
    /\ pc = 0
    /\ conds = <<>>
    /\ out = <<>>
    /\ types = {}
    /\ errors = {}
    /\ ninc = 0
    /\ phase = "preprocess"
    /\ classes = {}
    /\ spcalls = 0

(***************************************************************************)
(* The translation unit around the header.                                 *)
(***************************************************************************)
\* #include "common.h"
TuInclude ==
    /\ phase = "preprocess" /\ pc = 0
    /\ ninc < MaxIncludes
    /\ ninc' = ninc + 1
    /\ pc' = 1
    /\ UNCHANGED <<macros, conds, out, types, errors>>
    /\ UNCHANGED loadvars

\* The build (extconf.rb's have_header) or the including file defines
\* HAVE_LIBSPOTIFY_API_H between two inclusions.
TuDefineHave ==
    /\ phase = "preprocess" /\ pc = 0
    /\ HAVE_API \notin macros
    /\ macros' = macros \cup {HAVE_API}
    /\ UNCHANGED <<pc, conds, out, types, errors, ninc>>
    /\ UNCHANGED loadvars

TuUndefHave ==
    /\ phase = "preprocess" /\ pc = 0
    /\ HAVE_API \in macros
    /\ macros' = macros \ {HAVE_API}
    /\ UNCHANGED <<pc, conds, out, types, errors, ninc>>
    /\ UNCHANGED loadvars

(***************************************************************************)
(* The preprocessor on one line of common.h.                               *)
(***************************************************************************)
\* #ifdef M / #ifndef M: open a group, taken when the test holds and the
\* enclosing groups are being read.
DoIfdef ==
    /\ InHeader /\ Line.op = "ifdef"
    /\ conds' = Append(conds, [taken  |-> Active /\ Line.arg \in macros,
                               parent |-> Active])
    /\ pc' = NextPc
    /\ UNCHANGED <<macros, out, types, errors, ninc>>
    /\ UNCHANGED loadvars

DoIfndef ==
    /\ InHeader /\ Line.op = "ifndef"
    /\ conds' = Append(conds, [taken  |-> Active /\ Line.arg \notin macros,
                               parent |-> Active])
    /\ pc' = NextPc
    /\ UNCHANGED <<macros, out, types, errors, ninc>>
    /\ UNCHANGED loadvars

\* #else: the other branch of the innermost group.
DoElse ==
    /\ InHeader /\ Line.op = "else"
    /\ Len(conds) > 0
    /\ LET top == conds[Len(conds)]
       IN  conds' = [conds EXCEPT ![Len(conds)] =
                        [taken |-> top.parent /\ ~top.taken, parent |-> top.parent]]
    /\ pc' = NextPc
    /\ UNCHANGED <<macros, out, types, errors, ninc>>
    /\ UNCHANGED loadvars

\* #endif: close the innermost group.
DoEndif ==
    /\ InHeader /\ Line.op = "endif"
    /\ Len(conds) > 0
    /\ conds' = SubSeq(conds, 1, Len(conds) - 1)
    /\ pc' = NextPc
    /\ UNCHANGED <<macros, out, types, errors, ninc>>
    /\ UNCHANGED loadvars

\* #define M
DoDefine ==
    /\ InHeader /\ Line.op = "define"
    /\ IF Active
         THEN /\ macros' = macros \cup {Line.arg}
              /\ out' = Append(out, Emit("define"))
         ELSE UNCHANGED <<macros, out>>
    /\ pc' = NextPc
    /\ UNCHANGED <<conds, types, errors, ninc>>
    /\ UNCHANGED loadvars

\* #include <h>
DoInclude ==
    /\ InHeader /\ Line.op = "include"
    /\ IF Active
         THEN /\ out' = Append(out, Emit("include"))
              /\ types' = types \cup HeaderTypes(Line.arg)
         ELSE UNCHANGED <<out, types>>
    /\ pc' = NextPc
    /\ UNCHANGED <<macros, conds, errors, ninc>>
    /\ UNCHANGED loadvars

\* A function declaration: its parameter types must already be declared.
DoDecl ==
    /\ InHeader /\ Line.op = "decl"
    /\ IF Active
         THEN /\ out' = Append(out, Emit("decl"))
              /\ errors' = errors \cup
                    {Line.params[i] : i \in {j \in 1..Len(Line.params) :
                                                Line.params[j] \notin types}}
         ELSE UNCHANGED <<out, errors>>
    /\ pc' = NextPc
    /\ UNCHANGED <<macros, conds, types, ninc>>
    /\ UNCHANGED loadvars

\* A blank line or a comment.
DoText ==
    /\ InHeader /\ Line.op = "text"
    /\ pc' = NextPc
    /\ UNCHANGED <<macros, conds, out, types, errors, ninc>>
    /\ UNCHANGED loadvars

(***************************************************************************)
(* The companion translation unit and the extension's load.  Its code is   *)
(* not in this header; it is modelled from what the header's documentation *)
(* says of it: it defines Init_Session, which is called while the          *)
(* extension loads and defines the Session class, whose methods forward to *)
(* libspotify.                                                             *)
(***************************************************************************)
\* The header declares f, so a call of f in the including file compiles.
Declared(f) == \E i \in 1..Len(out) : out[i].kind = "decl" /\ out[i].name = f

\* The translation unit has been read to its end and compiles.
Compile ==
    /\ phase = "preprocess" /\ pc = 0
    /\ ninc >= 1
    /\ errors = {}
    /\ Declared("Init_Session")
    /\ phase' = "compiled"
    /\ UNCHANGED <<classes, spcalls>>
    /\ UNCHANGED ppvars

\* Ruby requires the extension: its entry point starts to run.
ExtLoad ==
    /\ phase = "compiled"
    /\ phase' = "loading"
    /\ UNCHANGED <<classes, spcalls>>
    /\ UNCHANGED ppvars

\* an Init_Session that returns without defining the class
Init_SessionNoClass ==
    /\ phase = "loading"
    /\ phase' = "loaded"
    /\ UNCHANGED <<classes, spcalls>>
    /\ UNCHANGED ppvars

\* Init_Session, called by the entry point: defines the Session class.
Init_Session ==
    /\ phase = "loading"
    /\ classes' = classes \cup {"Session"}
    /\ phase' = "loaded"
    /\ UNCHANGED spcalls
    /\ UNCHANGED ppvars

\* A Ruby script calls a Session method, which forwards to libspotify.
SessionCall ==
    /\ phase = "loaded"
    /\ "Session" \in classes
    /\ spcalls < MaxCalls
    /\ spcalls' = spcalls + 1
    /\ UNCHANGED <<phase, classes>>
    /\ UNCHANGED ppvars

Next ==
    \/ TuInclude
    \/ TuDefineHave
    \/ TuUndefHave
    \/ DoIfdef
    \/ DoIfndef
    \/ DoElse
    \/ DoEndif
    \/ DoDefine
    \/ DoInclude
    \/ DoDecl
    \/ DoText
    \/ Compile
    \/ ExtLoad
    \/ Init_Session
    \/ SessionCall

Spec == Init /\ [][Next]_vars

(***************************************************************************)
(* Reading the log.                                                        *)
(***************************************************************************)
ApiHeaders == {"libspotify/api.h", "spotify/api.h"}

\* The entries of the log of one kind, in order.
OfKind(k) == SelectSeq(out, LAMBDA e : e.kind = k)

ApiIncludes == SelectSeq(out, LAMBDA e : e.kind = "include" /\ e.name \in ApiHeaders)

\* What the inclusion numbered n did, as <<kind, name>> pairs in order.
Did(n) ==
    LET mine == SelectSeq(out, LAMBDA e : e.inc = n)
    IN  [i \in 1..Len(mine) |-> <<mine[i].kind, mine[i].name>>]

\* How often header h has been included.
Count(h) == Len(SelectSeq(out, LAMBDA e : e.kind = "include" /\ e.name = h))

\* Where in the log an entry stands (0 when it is not there).
Pos(kind, name) ==
    IF \E i \in 1..Len(out) : out[i].kind = kind /\ out[i].name = name
      THEN CHOOSE i \in 1..Len(out) : out[i].kind = kind /\ out[i].name = name
      ELSE 0

\* The first inclusion has been read to its last line.
FirstDone == ninc > 1 \/ (ninc = 1 /\ pc = 0)

\* A line of a second or later inclusion is about to be read.
InLaterInclusion == ninc > 1 /\ pc # 0

(***************************************************************************)
(* C1: including common.h is idempotent.  The first inclusion defines      *)
(* __HALLON__ and emits the #includes and the declaration of Init_Session; *)
(* no line of any later inclusion emits anything or changes the defined    *)
(* macros, the included headers or the declarations.                       *)
(***************************************************************************)
C1_Idempotent ==
    /\ [](FirstDone =>
            /\ GUARD_MACRO \in macros
            /\ \E api \in ApiHeaders :
                  Did(1) = << <<"define", GUARD_MACRO>>,
                              <<"include", "ruby.h">>,
                              <<"include", "pthread.h">>,
                              <<"include", api>>,
                              <<"decl", "Init_Session">> >>)
    /\ [][InLaterInclusion =>
            /\ macros' = macros
            /\ out' = out
            /\ types' = types]_vars

\* Three inclusions have been read and only the first one is in the log.
C1_Witness ==
    /\ ninc = MaxIncludes /\ pc = 0
    /\ Len(out) = 5
    /\ \A i \in 1..Len(out) : out[i].inc = 1

(***************************************************************************)
(* C2: the first inclusion includes exactly one libspotify API header:     *)
(* <libspotify/api.h> iff HAVE_LIBSPOTIFY_API_H is defined, <spotify/api.h>*)
(* iff it is not.  (Past line 11 of the first inclusion the macro still    *)
(* has the value line 7 tested.)                                           *)
(***************************************************************************)
C2_ExactlyOneApiHeader ==
    /\ (FirstDone \/ (ninc = 1 /\ pc > 11)) =>
          /\ Len(ApiIncludes) = 1
          /\ ApiIncludes[1].inc = 1
    /\ (ninc = 1 /\ pc > 11) =>
          /\ ApiIncludes[1].name = "libspotify/api.h" <=> HAVE_API \in macros
          /\ ApiIncludes[1].name = "spotify/api.h" <=> HAVE_API \notin macros

\* The first inclusion took the fallback; the macro was defined afterwards and
\* the header included again.
C2_Witness ==
    /\ ninc = 2 /\ pc = 0
    /\ HAVE_API \in macros
    /\ Len(ApiIncludes) = 1
    /\ ApiIncludes[1].name = "spotify/api.h"

(***************************************************************************)
(* C3: the first inclusion includes <ruby.h> and <pthread.h> whether or    *)
(* not HAVE_LIBSPOTIFY_API_H is defined, and declares exactly one          *)
(* function: void Init_Session(VALUE).                                     *)
(***************************************************************************)
C3_SystemIncludesAndOneDecl ==
    FirstDone =>
        /\ Count("ruby.h") = 1
        /\ Count("pthread.h") = 1
        /\ \A i \in 1..Len(out) :
              out[i].name \in {"ruby.h", "pthread.h"} => out[i].inc = 1
        /\ Len(OfKind("decl")) = 1
        /\ LET d == OfKind("decl")[1]
           IN  /\ d.name = "Init_Session"
               /\ d.ret = "void"
               /\ d.params = <<"VALUE">>
               /\ d.inc = 1

\* The first inclusion is over and it took the fallback branch.
C3_Witness ==
    /\ ninc = 1 /\ pc = 0
    /\ Count("spotify/api.h") = 1
    /\ Count("ruby.h") = 1 /\ Count("pthread.h") = 1
    /\ Len(OfKind("decl")) = 1

(***************************************************************************)
(* C4: the companion translation unit's Init_Session runs while the        *)
(* extension loads and exposes the Session class; Ruby scripts reach       *)
(* libspotify only through that class, so only after the load.             *)
(***************************************************************************)
C4_LoadExposesSession ==
    /\ phase = "loaded" => "Session" \in classes
    /\ "Session" \in classes => phase = "loaded" /\ Declared("Init_Session")
    /\ spcalls > 0 => "Session" \in classes

\* The extension is loaded and a script has called into libspotify.
C4_Witness ==
    /\ phase = "loaded"
    /\ "Session" \in classes
    /\ spcalls = MaxCalls

(***************************************************************************)
(* C5: reading the header defines no macro but __HALLON__, undefines none, *)
(* and introduces nothing of its own besides the one declaration: every    *)
(* effect is the guard's #define, an #include or the declaration, and      *)
(* every type in scope comes from an included header.                      *)
(***************************************************************************)
C5_Frame ==
    /\ [](/\ \A i \in 1..Len(out) :
               \/ out[i].kind = "define" /\ out[i].name = GUARD_MACRO
               \/ out[i].kind = "include"
               \/ out[i].kind = "decl" /\ out[i].name = "Init_Session"
          /\ types \subseteq
               UNION {HeaderTypes(e.name) :
                        e \in {out[i] : i \in {j \in 1..Len(out) :
                                                 out[j].kind = "include"}}})
    /\ [][pc # 0 =>
            /\ macros \subseteq macros'
            /\ macros' \subseteq macros \cup {GUARD_MACRO}]_vars

\* The header has been read with HAVE_LIBSPOTIFY_API_H defined and the macro
\* is still defined beside the guard.
C5_Witness ==
    /\ ninc = 1 /\ pc = 0
    /\ macros = {GUARD_MACRO, HAVE_API}
    /\ Len(out) = 5

(***************************************************************************)
(* C6: in the first inclusion <ruby.h> comes before <pthread.h>, both      *)
(* before the libspotify API header, and all three before the declaration  *)
(* of Init_Session, so VALUE is declared when the declaration is reached,  *)
(* in either branch.                                                       *)
(***************************************************************************)
C6_IncludesBeforeDecl ==
    /\ errors = {}
    /\ Declared("Init_Session") =>
          /\ 0 < Pos("include", "ruby.h")
          /\ Pos("include", "ruby.h") < Pos("include", "pthread.h")
          /\ Len(ApiIncludes) = 1
          /\ Pos("include", "pthread.h") < Pos("include", ApiIncludes[1].name)
          /\ Pos("include", ApiIncludes[1].name) < Pos("decl", "Init_Session")
          /\ "VALUE" \in types

\* The declaration has just been read, in the branch that includes
\* <libspotify/api.h>.
C6_Witness ==
    /\ ninc = 1 /\ pc = 17
    /\ Declared("Init_Session")
    /\ Count("libspotify/api.h") = 1
    /\ "VALUE" \in types

====
